---- MODULE Spec2Model ----
(***************************************************************************)
(* A model of notedown's Markdown-to-HTML converter (src/parser/main.cpp): *)
(* the Lexer (get_next_token and its handlers) and the Parser (parse,      *)
(* tokensToHtml, tokenToHtml, escapeHtml).                                 *)
(*                                                                         *)
(* A std::string is a sequence of one-character strings.  Positions are    *)
(* 0-based as in the source, so the character at position p of t is        *)
(* t[p + 1].  The lexer reserves '\0' as its end-of-input value of         *)
(* current_char; it is written NUL here and is not a character of any      *)
(* input text of the model.                                                *)
(***************************************************************************)
EXTENDS Integers, Sequences, FiniteSets, TLC

(***************************************************************************)
(* Bounds of the model.                                                    *)
(***************************************************************************)
\* longest input drawn over the whole alphabet
MaxLen == 4
\* longest input drawn over the marker-free alphabet
MaxPlainLen == 6
\* longest input drawn when termination is checked
MaxFairLen == 3
\* longest input drawn over the heading alphabet
MaxHeadLen == 8
\* longest token sequence handed to tokensToHtml directly
MaxTokens == 4

(***************************************************************************)
(* Characters.                                                             *)
(***************************************************************************)
NUL == "NUL"
NL == "\n"

\* src/parser/main.cpp:238-240
is_markdown_char(c) == c = "#" \/ c = "*" \/ c = "[" \/ c = "!" \/ c = "-"

\* <ctype.h> isspace in the "C" locale (the characters the model can write)
isspace(c) == c \in {" ", "\t", "\n", "\r", "\f"}

Alphabet == {"#", "*", "[", "]", "(", ")", "!", "-", " ", "\n", "\\", "|", "<", "a"}
PlainAlphabet == {"a", " ", "\n", "<", "&"}
HeadAlphabet == {"#", " ", "a"}
FairAlphabet == {"#", "*", "[", "!", "-", " ", "\n", "a"}

(***************************************************************************)
(* Lexer: cursor primitives.                                               *)
(***************************************************************************)
\* the end of the text taken one character early
CharAt_OffByOne(t, p) == IF p + 1 >= Len(t) THEN NUL ELSE t[p + 1]

\* the value advance() and the constructor give current_char at position p
CharAt(t, p) == IF p >= Len(t) THEN NUL ELSE t[p + 1]

\* Lexer::peek
peek(t, p) == IF p + 1 >= Len(t) THEN NUL ELSE t[p + 2]

\* the characters at positions p .. q-1
Slice(t, p, q) == SubSeq(t, p + 1, q)

\* std::string(n, c)
RECURSIVE Rep(_, _)
Rep(n, c) == IF n <= 0 THEN <<>> ELSE <<c>> \o Rep(n - 1, c)

\* Lexer::collect_until without include_delimiter: the position its loop stops at
RECURSIVE collect_until(_, _, _)
collect_until(t, p, delimiter) ==
    LET c == CharAt(t, p)
    IN  IF c # NUL /\ c # delimiter /\ c # NL
        THEN collect_until(t, p + 1, delimiter)
        ELSE p

\* "if (current_char == '\n') advance();"
SkipOneNewline(t, p) == IF CharAt(t, p) = NL THEN p + 1 ELSE p

Token(type, value) == [type |-> type, value |-> value, is_eof |-> FALSE]
createEOF == [type |-> "TEXT", value |-> <<>>, is_eof |-> TRUE]

\* what a handler hands back: the token and the cursor it leaves
Ret(tok, p) == [tok |-> tok, pos |-> p]

(***************************************************************************)
(* Lexer: the handlers.  Each is called with the cursor p on its marker    *)
(* character and returns the token together with the cursor it leaves.     *)
(***************************************************************************)
\* the '#' counted without the limit of six
RECURSIVE CountHashes_NoLimit(_, _, _)
CountHashes_NoLimit(t, p, level) ==
    IF CharAt(t, p) = "#"
    THEN CountHashes_NoLimit(t, p + 1, level + 1)
    ELSE [pos |-> p, level |-> level]

\* the '#'-counting loop of handle_heading: the cursor and level it ends with
RECURSIVE CountHashes(_, _, _)
CountHashes(t, p, level) ==
    IF CharAt(t, p) = "#" /\ level < 6
    THEN CountHashes(t, p + 1, level + 1)
    ELSE [pos |-> p, level |-> level]

\* "while (isspace(current_char) && current_char != '\n') advance();"
RECURSIVE SkipInlineSpace(_, _)
SkipInlineSpace(t, p) ==
    IF isspace(CharAt(t, p)) /\ CharAt(t, p) # NL
    THEN SkipInlineSpace(t, p + 1)
    ELSE p

HeadingType(level) ==
    CASE level = 1 -> "H1"
      [] level = 2 -> "H2"
      [] level = 3 -> "H3"
      [] level = 4 -> "H4"
      [] level = 5 -> "H5"
      [] level = 6 -> "H6"
      [] OTHER -> "TEXT"

\* the whitespace test of line 111 left out
handle_heading_NoSpaceTest(t, p) ==
    LET h == CountHashes(t, p + 1, 1)
        s == SkipInlineSpace(t, h.pos)
        q == collect_until(t, s, NL)
    IN  Ret(Token(HeadingType(h.level), Slice(t, s, q)), SkipOneNewline(t, q))

handle_heading(t, p) ==
    LET h == CountHashes(t, p + 1, 1)
        level == h.level
    IN  IF ~isspace(CharAt(t, h.pos))
        THEN LET q == collect_until(t, h.pos, NL)
             IN  Ret(Token("TEXT", Rep(level, "#") \o Slice(t, h.pos, q)),
                     SkipOneNewline(t, q))
        ELSE LET s == SkipInlineSpace(t, h.pos)
                 q == collect_until(t, s, NL)
                 content == Slice(t, s, q)
             IN  Ret(Token(HeadingType(level),
                           IF level \in 1..6 THEN content
                           ELSE Rep(level, "#") \o content),
                     SkipOneNewline(t, q))

\* the closing '*' of an italic left unconsumed
RECURSIVE ItalicScan_KeepsStar(_, _, _)
ItalicScan_KeepsStar(t, s, p) ==
    LET c == CharAt(t, p)
    IN  IF c # NUL /\ c # NL
        THEN IF c = "*"
             THEN Ret(Token("ITALIC", Slice(t, s, p)), p)
             ELSE ItalicScan_KeepsStar(t, s, p + 1)
        ELSE Ret(Token("TEXT", <<"*">> \o Slice(t, s, p)), p)

\* the italic loop of handle_emphasis, started at s and now at p
RECURSIVE ItalicScan(_, _, _)
ItalicScan(t, s, p) ==
    LET c == CharAt(t, p)
    IN  IF c # NUL /\ c # NL
        THEN IF c = "*"
             THEN Ret(Token("ITALIC", Slice(t, s, p)), p + 1)
             ELSE ItalicScan(t, s, p + 1)
        ELSE Ret(Token("TEXT", <<"*">> \o Slice(t, s, p)), p)

\* bold returned although no closing "**" was found
handle_emphasis_UnclosedIsBold(t, p) ==
    IF CharAt(t, p + 1) = "*"
    THEN LET q == collect_until(t, p + 2, "*")
         IN  Ret(Token("BOLD", Slice(t, p + 2, q)),
                 IF CharAt(t, q) = "*" /\ peek(t, q) = "*" THEN q + 2 ELSE q)
    ELSE ItalicScan(t, p + 1, p + 1)

handle_emphasis(t, p) ==
    IF CharAt(t, p + 1) = "*"
    THEN LET q == collect_until(t, p + 2, "*")
             content == Slice(t, p + 2, q)
         IN  IF CharAt(t, q) = "*" /\ peek(t, q) = "*"
             THEN Ret(Token("BOLD", content), q + 2)
             ELSE Ret(Token("TEXT", <<"*", "*">> \o content \o
                                    (IF CharAt(t, q) = "*" THEN <<"*">> ELSE <<>>)),
                      q)
    ELSE ItalicScan(t, p + 1, p + 1)

\* an escaped '[' counted like a plain one
RECURSIVE BracketScan_CountsEscaped(_, _, _, _)
BracketScan_CountsEscaped(t, p, text, bracket_count) ==
    LET c == CharAt(t, p)
    IN  IF c = NUL
        THEN [pos |-> p, text |-> text, bracket_count |-> bracket_count]
        ELSE IF c = "\\" /\ peek(t, p) = "["
        THEN BracketScan_CountsEscaped(t, p + 2, text \o <<"[">>, bracket_count + 1)
        ELSE IF c = "["
        THEN BracketScan_CountsEscaped(t, p + 1, text \o <<c>>, bracket_count + 1)
        ELSE IF c = "]"
        THEN IF bracket_count - 1 = 0
             THEN [pos |-> p + 1, text |-> text, bracket_count |-> 0]
             ELSE BracketScan_CountsEscaped(t, p + 1, text \o <<c>>, bracket_count - 1)
        ELSE BracketScan_CountsEscaped(t, p + 1, text \o <<c>>, bracket_count)

\* the bracket loop of handle_link: cursor, captured text and bracket_count
\* when the loop ends
RECURSIVE BracketScan(_, _, _, _)
BracketScan(t, p, text, bracket_count) ==
    LET c == CharAt(t, p)
    IN  IF c = NUL
        THEN [pos |-> p, text |-> text, bracket_count |-> bracket_count]
        ELSE IF c = "\\" /\ peek(t, p) = "["
        THEN BracketScan(t, p + 2, text \o <<"[">>, bracket_count)
        ELSE IF c = "["
        THEN BracketScan(t, p + 1, text \o <<c>>, bracket_count + 1)
        ELSE IF c = "]"
        THEN IF bracket_count - 1 = 0
             THEN [pos |-> p + 1, text |-> text, bracket_count |-> 0]
             ELSE BracketScan(t, p + 1, text \o <<c>>, bracket_count - 1)
        ELSE BracketScan(t, p + 1, text \o <<c>>, bracket_count)

\* a link returned although no ')' closed the URL
handle_link_UnclosedUrlIsLink(t, p) ==
    LET b == BracketScan(t, p + 1, <<>>, 1)
    IN  IF b.bracket_count > 0
        THEN Ret(Token("TEXT", <<"[">> \o b.text), b.pos)
        ELSE IF CharAt(t, b.pos) # "("
        THEN Ret(Token("TEXT", <<"[">> \o b.text \o <<"]">>), b.pos)
        ELSE LET q == collect_until(t, b.pos + 1, ")")
             IN  Ret(Token("LINK", b.text \o <<"|">> \o Slice(t, b.pos + 1, q)),
                     IF CharAt(t, q) = ")" THEN q + 1 ELSE q)

handle_link(t, p) ==
    LET b == BracketScan(t, p + 1, <<>>, 1)
    IN  IF b.bracket_count > 0
        THEN Ret(Token("TEXT", <<"[">> \o b.text), b.pos)
        ELSE IF CharAt(t, b.pos) # "("
        THEN Ret(Token("TEXT", <<"[">> \o b.text \o <<"]">>), b.pos)
        ELSE LET q == collect_until(t, b.pos + 1, ")")
                 url == Slice(t, b.pos + 1, q)
             IN  IF CharAt(t, q) # ")"
                 THEN Ret(Token("TEXT", <<"[">> \o b.text \o <<"]", "(">> \o url), q)
                 ELSE Ret(Token("LINK", b.text \o <<"|">> \o url), q + 1)

\* the '!' dropped from a degraded image
handle_image_DropsBang(t, p) ==
    IF CharAt(t, p + 1) # "["
    THEN Ret(Token("TEXT", <<"!">>), p + 1)
    ELSE LET l == handle_link(t, p + 1)
         IN  IF l.tok.type = "LINK"
             THEN Ret(Token("IMAGE", l.tok.value), l.pos)
             ELSE Ret(Token("TEXT", l.tok.value), l.pos)

handle_image(t, p) ==
    IF CharAt(t, p + 1) # "["
    THEN Ret(Token("TEXT", <<"!">>), p + 1)
    ELSE LET l == handle_link(t, p + 1)
         IN  IF l.tok.type = "LINK"
             THEN Ret(Token("IMAGE", l.tok.value), l.pos)
             ELSE Ret(Token("TEXT", <<"!">> \o l.tok.value), l.pos)

handle_list(t, p) ==
    IF ~isspace(CharAt(t, p + 1))
    THEN LET q == collect_until(t, p + 1, NL)
         IN  Ret(Token("TEXT", <<"-">> \o Slice(t, p + 1, q)), SkipOneNewline(t, q))
    ELSE LET q == collect_until(t, p + 2, NL)
         IN  Ret(Token("LIST", Slice(t, p + 2, q)), SkipOneNewline(t, q))

(***************************************************************************)
(* Lexer: get_next_token.                                                  *)
(***************************************************************************)
\* one newline skipped, not all of them
SkipNewlines_OnlyOne(t, p) == IF CharAt(t, p) = NL THEN p + 1 ELSE p

\* "Skip isolated newlines": the cursor the while loop of lines 253-258 ends at
RECURSIVE SkipNewlines(_, _)
SkipNewlines(t, p) ==
    IF CharAt(t, p) = NL THEN SkipNewlines(t, p + 1) ELSE p

\* the plain-text loop stopping at every newline, not only at a pair
RECURSIVE TextRunEnd_StopAtNewline(_, _)
TextRunEnd_StopAtNewline(t, p) ==
    LET c == CharAt(t, p)
    IN  IF c # NUL /\ ~is_markdown_char(c) /\ c # NL
        THEN TextRunEnd_StopAtNewline(t, p + 1)
        ELSE p

\* the plain-text loop of lines 281-289: the cursor it stops at
RECURSIVE TextRunEnd(_, _)
TextRunEnd(t, p) ==
    LET c == CharAt(t, p)
    IN  IF c # NUL /\ ~is_markdown_char(c)
        THEN IF c = NL /\ peek(t, p) = NL
             THEN p
             ELSE TextRunEnd(t, p + 1)
        ELSE p

\* the trailing newlines kept
TrimNewlines_KeepsAll(s) == s

\* "Trim trailing newlines from text content"
RECURSIVE TrimNewlines(_)
TrimNewlines(s) ==
    IF Len(s) > 0 /\ s[Len(s)] = NL
    THEN TrimNewlines(SubSeq(s, 1, Len(s) - 1))
    ELSE s

text_run(t, p) ==
    LET q == TextRunEnd(t, p)
    IN  Ret(Token("TEXT", TrimNewlines(Slice(t, p, q))), q)

\* which branch of get_next_token serves the character under the cursor
Dispatch(c) ==
    CASE c = NUL -> "eof"
      [] c = "#" -> "heading"
      [] c = "*" -> "emphasis"
      [] c = "[" -> "link"
      [] c = "!" -> "image"
      [] c = "-" -> "list"
      [] OTHER -> "text"

\* an empty Text token returned at the end of the input, EOF never
get_next_token_EmptyTextAtEnd(t, p) ==
    IF CharAt(t, p) = NUL
    THEN Ret(Token("TEXT", <<>>), p)
    ELSE LET s == SkipNewlines(t, p)
             d == Dispatch(CharAt(t, s))
         IN  CASE d = "eof" -> Ret(Token("TEXT", <<>>), s)
               [] d = "heading" -> handle_heading(t, s)
               [] d = "emphasis" -> handle_emphasis(t, s)
               [] d = "link" -> handle_link(t, s)
               [] d = "image" -> handle_image(t, s)
               [] d = "list" -> handle_list(t, s)
               [] OTHER -> text_run(t, s)

\* get_next_token called with the cursor at p
get_next_token(t, p) ==
    IF CharAt(t, p) = NUL
    THEN Ret(createEOF, p)
    ELSE LET s == SkipNewlines(t, p)
             d == Dispatch(CharAt(t, s))
         IN  CASE d = "eof" -> Ret(createEOF, s)
               [] d = "heading" -> handle_heading(t, s)
               [] d = "emphasis" -> handle_emphasis(t, s)
               [] d = "link" -> handle_link(t, s)
               [] d = "image" -> handle_image(t, s)
               [] d = "list" -> handle_list(t, s)
               [] OTHER -> text_run(t, s)

(***************************************************************************)
(* Parser: escapeHtml, tokenToHtml and the pieces of tokensToHtml.         *)
(***************************************************************************)
\* the double quote copied instead of replaced
EscapeChar_KeepsQuote(c) ==
    CASE c = "<"  -> <<"&", "l", "t", ";">>
      [] c = ">"  -> <<"&", "g", "t", ";">>
      [] c = "&"  -> <<"&", "a", "m", "p", ";">>
      [] OTHER    -> <<c>>

\* '&' copied instead of replaced
EscapeChar_KeepsAmp(c) ==
    CASE c = "<"  -> <<"&", "l", "t", ";">>
      [] c = ">"  -> <<"&", "g", "t", ";">>
      [] c = "\"" -> <<"&", "q", "u", "o", "t", ";">>
      [] OTHER    -> <<c>>

EscapeChar(c) ==
    CASE c = "<" -> <<"&", "l", "t", ";">>
      [] c = ">" -> <<"&", "g", "t", ";">>
      [] c = "&" -> <<"&", "a", "m", "p", ";">>
      [] c = "\"" -> <<"&", "q", "u", "o", "t", ";">>
      [] OTHER -> <<c>>

RECURSIVE escapeHtml(_)
escapeHtml(text) ==
    IF text = <<>> THEN <<>>
    ELSE EscapeChar(Head(text)) \o escapeHtml(Tail(text))

\* std::string::find(c): the 0-based index of the first c, or npos
npos == -1
RECURSIVE FindFrom(_, _, _)
FindFrom(s, c, k) ==
    IF k >= Len(s) THEN npos
    ELSE IF s[k + 1] = c THEN k
    ELSE FindFrom(s, c, k + 1)

find(s, c) == FindFrom(s, c, 0)

\* content.substr(0, sep): npos as a count takes the whole string
SubstrTo(s, sep) == IF sep = npos THEN s ELSE SubSeq(s, 1, sep)

\* content.substr(sep + 1): npos + 1 wraps to 0
SubstrAfter(s, sep) == IF sep = npos THEN s ELSE SubSeq(s, sep + 2, Len(s))

isInlineElement(type) == type \in {"BOLD", "ITALIC", "LINK", "IMAGE"}

isBlockElement(type) == type \in {"H1", "H2", "H3", "H4", "H5", "H6", "LIST"}

\* the literal pieces of markup the renderer writes
OpenP == <<"<", "p", ">">>
CloseP == <<"<", "/", "p", ">", "\n">>
OpenUl == <<"<", "u", "l", ">", "\n">>
CloseUl == <<"<", "/", "u", "l", ">", "\n">>
OpenTag(name) == <<"<">> \o name \o <<">">>
CloseTag(name) == <<"<", "/">> \o name \o <<">">>

HeadingTag(type) ==
    CASE type = "H1" -> <<"h", "1">>
      [] type = "H2" -> <<"h", "2">>
      [] type = "H3" -> <<"h", "3">>
      [] type = "H4" -> <<"h", "4">>
      [] type = "H5" -> <<"h", "5">>
      [] type = "H6" -> <<"h", "6">>

tokenToHtml(token) ==
    LET content == escapeHtml(token.value)
        sep == find(content, "|")
    IN  CASE token.type = "TEXT" -> content
          [] token.type \in {"H1", "H2", "H3", "H4", "H5", "H6"} ->
                OpenTag(HeadingTag(token.type)) \o content
                    \o CloseTag(HeadingTag(token.type)) \o <<"\n">>
          [] token.type = "BOLD" ->
                OpenTag(<<"s", "t", "r", "o", "n", "g">>) \o content
                    \o CloseTag(<<"s", "t", "r", "o", "n", "g">>)
          [] token.type = "ITALIC" ->
                OpenTag(<<"e", "m">>) \o content \o CloseTag(<<"e", "m">>)
          [] token.type = "LIST" ->
                OpenTag(<<"l", "i">>) \o content \o CloseTag(<<"l", "i">>) \o <<"\n">>
          [] token.type = "LINK" ->
                <<"<", "a", " ", "h", "r", "e", "f", "=", "\"">> \o SubstrAfter(content, sep)
                    \o <<"\"", ">">> \o SubstrTo(content, sep) \o <<"<", "/", "a", ">">>
          [] token.type = "IMAGE" ->
                <<"<", "i", "m", "g", " ", "s", "r", "c", "=", "\"">>
                    \o SubstrAfter(content, sep)
                    \o <<"\"", " ", "a", "l", "t", "=", "\"">> \o SubstrTo(content, sep)
                    \o <<"\"", ">">>
          [] OTHER -> content

\* the list left open when a token that is no list item follows
ListWrap_NoClose(type, inL, inP) ==
    IF type = "LIST"
    THEN [out |-> (IF inP THEN <<CloseP>> ELSE <<>>) \o (IF ~inL THEN <<OpenUl>> ELSE <<>>),
          inList |-> TRUE, inParagraph |-> FALSE]
    ELSE [out |-> <<>>, inList |-> inL, inParagraph |-> inP]

\* "Handle list wrapping" (lines 342-355): what is written, and inList and
\* inParagraph afterwards
ListWrap(type, inL, inP) ==
    IF type = "LIST"
    THEN [out |-> (IF inP THEN <<CloseP>> ELSE <<>>) \o (IF ~inL THEN <<OpenUl>> ELSE <<>>),
          inList |-> TRUE, inParagraph |-> FALSE]
    ELSE IF inL
    THEN [out |-> <<CloseUl>>, inList |-> FALSE, inParagraph |-> inP]
    ELSE [out |-> <<>>, inList |-> inL, inParagraph |-> inP]

\* a paragraph opened before a token of any type
ParagraphWrap_OpensForAll(type, inP) ==
    IF ~inP
    THEN [out |-> <<OpenP>>, inParagraph |-> TRUE]
    ELSE IF inP /\ isBlockElement(type)
    THEN [out |-> <<CloseP>>, inParagraph |-> FALSE]
    ELSE [out |-> <<>>, inParagraph |-> inP]

\* a paragraph opened for every Text or inline token, open or not
ParagraphWrap_AlwaysOpens(type, inP) ==
    IF type = "TEXT" \/ isInlineElement(type)
    THEN [out |-> <<OpenP>>, inParagraph |-> TRUE]
    ELSE IF inP /\ isBlockElement(type)
    THEN [out |-> <<CloseP>>, inParagraph |-> FALSE]
    ELSE [out |-> <<>>, inParagraph |-> inP]

\* "Handle paragraph wrapping" (lines 357-364): what is written and inParagraph
ParagraphWrap(type, inP) ==
    IF (type = "TEXT" \/ isInlineElement(type)) /\ ~inP
    THEN [out |-> <<OpenP>>, inParagraph |-> TRUE]
    ELSE IF inP /\ isBlockElement(type)
    THEN [out |-> <<CloseP>>, inParagraph |-> FALSE]
    ELSE [out |-> <<>>, inParagraph |-> inP]

\* the last-token test left out of the condition of line 370
ReadsNextToken_NoLastTest(inP, k, size) == inP

\* line 370: whether the condition goes on to read tokens[i+1]
ReadsNextToken(inP, k, size) == inP /\ ~(k = size - 1)

\* line 370: "close paragraph if this is the last token or next token is a
\* block element"; toks[k + 2] is tokens[i+1]
ClosesAfter(toks, k, inP) ==
    inP /\ (k = Len(toks) - 1
            \/ (k + 2 \in DOMAIN toks /\ isBlockElement(toks[k + 2].type)))

\* std::stringstream::str() of a stream the chunks of out were written to
RECURSIVE Flatten(_)
Flatten(out) == IF out = <<>> THEN <<>> ELSE Head(out) \o Flatten(Tail(out))

(***************************************************************************)
(* Inputs of the model: every string over the alphabets up to the bounds,  *)
(* and a few longer documents.                                             *)
(***************************************************************************)
Strings(A, n) == UNION {[1..k -> A] : k \in 0..n}

Samples == {
    \* the List Test of runParserTests
    <<"-", " ", "I", "t", "e", "m", " ", "1", "\n", "-", " ", "I", "t", "e", "m", " ", "2">>,
    \* a heading, a line with bold, a list line
    <<"#", " ", "T", "\n", "a", " ", "*", "*", "b", "*", "*", " ", "c", "\n", "-", " ", "i">>,
    \* a heading marker without a space
    <<"#", "I", "n", "v", "a", "l", "i", "d">>,
    \* more than six '#' and no space
    <<"#", "#", "#", "#", "#", "#", "#", "a">>,
    \* unclosed bold
    <<"*", "*", "b", "o", "l", "d">>,
    \* unclosed bold ended by the line
    <<"*", "*", "a", "<", "\n">>,
    \* unclosed bold with a single closing '*'
    <<"*", "*", "a", "*", "b">>,
    \* links with and without '|' in their fields
    <<"[", "a", "]", "(", "b", ")">>,
    <<"[", "a", "|", "b", "]", "(", "c", ")">>,
    <<"[", "a", "]", "(", "b", "|", "c", ")">>,
    <<"x", " ", "[", "a", "<", "]", "(", "b", ")", " ", "y">>,
    \* an escaped bracket in unbalanced link text
    <<"[", "a", "\\", "[", "b">>,
    \* paragraphs separated by a blank line
    <<"a", " ", "b", "\n", "\n", "c", " ", "d">>,
    <<"a", "\n", "\n", "\n", "b">>,
    \* bold, italic, image inside text
    <<"a", " ", "*", "*", "b", "*", "*", " ", "*", "c", "*", " ", "!", "[", "d", "]", "(", "e", ")">>,
    \* a link whose URL is never closed
    <<"[", "a", "]", "(", "h", "t", "t", "p", ":", "/", "/", "x">>,
    <<"[", "a", "]", "(", "b", "\n", "c", ")">>,
    \* bold inside italic
    <<"*", "o", "u", "t", "e", "r", " ", "*", "*", "i", "n", "n", "e", "r", "*", "*", " ",
      "o", "u", "t", "e", "r", "*">>,
    \* nested and escaped brackets in link text
    <<"[", "a", "[", "b", "]", "c", "]", "(", "d", ")">>,
    <<"[", "a", "\\", "[", "b", "]", "(", "c", ")">>,
    <<"[", "a", "[", "b", "]", "\n", "c">>,
    \* images: complete, with an unclosed URL, with a newline before the URL
    <<"!", "[", "A", "l", "t", "]", "(", "i", ".", "p", "n", "g", ")">>,
    <<"!", "[", "a", "]", "(", "b">>,
    <<"!", "[", "a", "]", "\n", "(", "b", ")">>,
    \* list markers followed by a tab, by a newline
    <<"-", "\t", "a", "\n", "b">>,
    <<"-", "\n", "a", "b", "\n", "c">>,
    \* headings of level 3 and 6, whitespace runs, an empty heading line
    <<"#", "#", "#", " ", "\t", "a", " ", "b", "\n", "c">>,
    <<"#", "#", "#", "#", "#", "#", " ", "a", "\n", "#", "\n", "b">>,
    \* the characters escapeHtml replaces, in every kind of payload
    <<"[", "<", "&", "]", "(", "\"", ">", ")">>,
    <<"!", "[", "a", "\"", "b", "]", "(", "c", ">", "d", ")">>,
    <<"*", "*", "<", "b", ">", "*", "*", " ", "*", "&", "*">>,
    <<"#", " ", "a", "&", "b", "\"", "\n", "-", " ", "\"", "x", "\"", " ", "<", "y", ">">>,
    <<"a", " ", ">", " ", "b", " ", "&", "a", "m", "p", ";", " ", "c">>
}

Inputs ==
    Strings(Alphabet, MaxLen) \cup Strings(PlainAlphabet, MaxPlainLen)
        \cup Strings(HeadAlphabet, MaxHeadLen) \cup Samples

(***************************************************************************)
(* State.                                                                  *)
(***************************************************************************)
VARIABLES
    pc,            \* "idle", "lex" (parse's token loop), "render" (tokensToHtml), "done"
    text,          \* Lexer::text
    pos,           \* Lexer::pos
    current_char,  \* Lexer::current_char
    token,         \* parse's local: the token get_next_token returned last
    tokens,        \* Parser::tokens
    i,             \* tokensToHtml's loop index
    inList,        \* tokensToHtml's inList
    inParagraph,   \* tokensToHtml's inParagraph
    output,        \* tokensToHtml's stream: the chunks written so far
    result,        \* the string parse returned
    oob,           \* tokens was indexed outside 0 .. size-1
    handler,       \* the branch of get_next_token that served the last call
    handlerPos     \* the cursor when that branch was entered

vars == <<pc, text, pos, current_char, token, tokens, i, inList, inParagraph,
          output, result, oob, handler, handlerPos>>

NoToken == [type |-> "NONE", value |-> <<>>, is_eof |-> FALSE]

\* Parser() = default: no lexer yet, no tokens
Init ==
    /\ pc = "idle"
    /\ text = <<>>
    /\ pos = 0
    /\ current_char = NUL
    /\ token = NoToken
    /\ tokens = <<>>
    /\ i = 0
    /\ inList = FALSE
    /\ inParagraph = FALSE
    /\ output = <<>>
    /\ result = <<>>
    /\ oob = FALSE
    /\ handler = "none"
    /\ handlerPos = 0

\* the tokens of the earlier call kept
clear_KeepsTokens(toks) == toks

\* tokens.clear()
clear(toks) == <<>>

\* parse(markdown), up to its first call of get_next_token: a new Lexer on
\* markdown, tokens cleared
Parse(markdown) ==
    /\ pc = "idle"
    /\ pc' = "lex"
    /\ text' = markdown
    /\ pos' = 0
    /\ current_char' = CharAt(markdown, 0)
    /\ tokens' = clear(tokens)
    /\ token' = NoToken
    /\ i' = 0
    /\ inList' = FALSE
    /\ inParagraph' = FALSE
    /\ output' = <<>>
    /\ result' = <<>>
    /\ oob' = FALSE
    /\ handler' = "none"
    /\ handlerPos' = 0

\* the branch the next call of get_next_token takes
Branch == IF current_char = NUL THEN "eof" ELSE Dispatch(CharAt(text, SkipNewlines(text, pos)))

\* one call of get_next_token from parse's loop and the push_back of what it
\* returned; on EOF the loop ends and tokensToHtml starts
GetToken ==
    /\ pc = "lex"
    /\ LET r == get_next_token(text, pos)
       IN  /\ token' = r.tok
           /\ pos' = r.pos
           /\ current_char' = CharAt(text, r.pos)
           /\ tokens' = IF r.tok.is_eof THEN tokens ELSE Append(tokens, r.tok)
           /\ pc' = IF r.tok.is_eof THEN "render" ELSE "lex"
    /\ handler' = Branch
    /\ handlerPos' = IF current_char = NUL THEN pos ELSE SkipNewlines(text, pos)
    /\ i' = 0
    /\ inList' = FALSE
    /\ inParagraph' = FALSE
    /\ output' = <<>>
    /\ UNCHANGED <<text, result, oob>>

\* the call, by the branch of get_next_token that serves it
GetEOF ==
    /\ Branch = "eof"
    /\ GetToken

GetHeading ==
    /\ Branch = "heading"
    /\ GetToken

GetEmphasis ==
    /\ Branch = "emphasis"
    /\ GetToken

GetLink ==
    /\ Branch = "link"
    /\ GetToken

GetImage ==
    /\ Branch = "image"
    /\ GetToken

GetList ==
    /\ Branch = "list"
    /\ GetToken

GetText ==
    /\ Branch = "text"
    /\ GetToken

\* one iteration of the for loop of tokensToHtml (lines 338-374)
RenderToken ==
    /\ pc = "render"
    /\ i < Len(tokens)
    /\ LET tok == tokens[i + 1]
           lw == ListWrap(tok.type, inList, inParagraph)
           pw == ParagraphWrap(tok.type, lw.inParagraph)
           closes == ClosesAfter(tokens, i, pw.inParagraph)
       IN  /\ output' = output \o lw.out \o pw.out \o <<tokenToHtml(tok)>>
                               \o (IF closes THEN <<CloseP>> ELSE <<>>)
           /\ inList' = lw.inList
           /\ inParagraph' = (pw.inParagraph /\ ~closes)
           /\ oob' = (oob \/ (ReadsNextToken(pw.inParagraph, i, Len(tokens))
                              /\ i + 1 >= Len(tokens)))
    /\ i' = i + 1
    /\ UNCHANGED <<pc, text, pos, current_char, token, tokens, result, handler, handlerPos>>

\* the end of tokensToHtml (lines 376-379) and parse's return
RenderFinish ==
    /\ pc = "render"
    /\ i >= Len(tokens)
    /\ output' = output \o (IF inList THEN <<CloseUl>> ELSE <<>>)
                        \o (IF inParagraph THEN <<CloseP>> ELSE <<>>)
    /\ result' = Flatten(output')
    /\ pc' = "done"
    /\ UNCHANGED <<text, pos, current_char, token, tokens, i, inList, inParagraph,
                   oob, handler, handlerPos>>

\* a caller hands parse some input
ParseInput == pc = "idle" /\ \E markdown \in Inputs : Parse(markdown)

Next ==
    \/ ParseInput
    \/ GetEOF
    \/ GetHeading
    \/ GetEmphasis
    \/ GetLink
    \/ GetImage
    \/ GetList
    \/ GetText
    \/ RenderToken
    \/ RenderFinish

Spec == Init /\ [][Next]_vars

\* the steps of a call of parse that is under way: straight-line code, which
\* keeps running until it returns
Run ==
    \/ GetEOF
    \/ GetHeading
    \/ GetEmphasis
    \/ GetLink
    \/ GetImage
    \/ GetList
    \/ GetText
    \/ RenderToken
    \/ RenderFinish

\* the inputs termination is checked on
FairInputs == Strings(FairAlphabet, MaxFairLen) \cup Samples

ParseFairInput == pc = "idle" /\ \E markdown \in FairInputs : Parse(markdown)

NextFair ==
    \/ ParseFairInput
    \/ Run

FairSpec == Init /\ [][NextFair]_vars /\ WF_vars(Run)

(***************************************************************************)
(* tokensToHtml on its own: the walk started on any token sequence.        *)
(***************************************************************************)
TokenPool == {
    Token("TEXT", <<"a">>),
    Token("TEXT", <<"<">>),
    Token("H1", <<"a">>),
    Token("H3", <<"b">>),
    Token("BOLD", <<"a">>),
    Token("ITALIC", <<"a">>),
    Token("LINK", <<"a", "|", "b">>),
    Token("IMAGE", <<"a", "|", "b">>),
    Token("LIST", <<"a">>)
}

TokenSamples == {
    \* the tokens of "# a\na **a** a\n- a"
    <<Token("H1", <<"a">>), Token("TEXT", <<"a">>), Token("BOLD", <<"a">>),
      Token("TEXT", <<"a">>), Token("LIST", <<"a">>)>>,
    \* the tokens of "- Item 1\n- Item 2"
    <<Token("LIST", <<"I", "t", "e", "m", " ", "1">>),
      Token("LIST", <<"I", "t", "e", "m", " ", "2">>)>>
}

TokenSeqs == Strings(TokenPool, MaxTokens) \cup TokenSamples

InitRender ==
    /\ pc = "render"
    /\ tokens \in TokenSeqs
    /\ text = <<>>
    /\ pos = 0
    /\ current_char = NUL
    /\ token = createEOF
    /\ i = 0
    /\ inList = FALSE
    /\ inParagraph = FALSE
    /\ output = <<>>
    /\ result = <<>>
    /\ oob = FALSE
    /\ handler = "eof"
    /\ handlerPos = 0

NextRender ==
    \/ RenderToken
    \/ RenderFinish

SpecRender == InitRender /\ [][NextRender]_vars

(***************************************************************************)
(* Vocabulary of the properties.                                           *)
(***************************************************************************)
\* no character of s is one of the markers # * [ ! -
MarkerFree(s) == \A k \in DOMAIN s : ~is_markdown_char(s[k])

WhitespaceOnly(s) == \A k \in DOMAIN s : isspace(s[k])

HasChar(s, c) == \E k \in DOMAIN s : s[k] = c

\* the input characters the last call consumed from where its branch began
Consumed == Slice(text, handlerPos, pos)

\* the last call went through one of the five marker handlers
ByHandler == handler \in {"heading", "emphasis", "link", "image", "list"}

(***************************************************************************)
(* C1.  parse terminates and returns without a fault: every call of        *)
(* get_next_token that yields a token (not EOF) moves the cursor strictly  *)
(* forward, so a parse that has started always reaches its return, never   *)
(* holding more tokens than the input has characters, and tokensToHtml     *)
(* never indexes tokens outside 0 .. size-1.                               *)
(***************************************************************************)
C1_ParseTerminates ==
    /\ [][Len(tokens') > Len(tokens) => pos' > pos]_vars
    /\ [](Len(tokens) <= Len(text) /\ pos <= Len(text) /\ ~oob)
    /\ [](pc = "lex" => <>(pc = "done"))

\* a parse that returned after as many tokens as the input has characters
C1_Witness ==
    /\ pc = "done"
    /\ Len(text) >= 2
    /\ Len(tokens) = Len(text)
    /\ \E k \in DOMAIN tokens : tokens[k].type \in {"TEXT", "BOLD"} /\ k < Len(tokens)

(***************************************************************************)
(* C2.  A Text token that one of the five handlers returns for a malformed *)
(* construct carries exactly the input characters that call consumed, but  *)
(* for one trailing line terminator.                                       *)
(***************************************************************************)
C2_DegradedTextKeepsInput ==
    (ByHandler /\ token.type = "TEXT")
        => (token.value = Consumed \/ token.value \o <<NL>> = Consumed)

Paragraph(s) == OpenP \o s \o CloseP

\* s neither starts nor ends with a newline and has no two newlines in a row
NoNewlineEdgeOrPair(s) ==
    /\ s # <<>> => (s[1] # NL /\ s[Len(s)] # NL)
    /\ \A k \in 1..(Len(s) - 1) : ~(s[k] = NL /\ s[k + 1] = NL)

PlainInput(s) == s # <<>> /\ ~WhitespaceOnly(s) /\ MarkerFree(s)

\* C4 as claimed: for every non-empty, non-whitespace-only input without
\* marker characters parse returns "<p>" + escapeHtml(input) + "</p>\n"
C4_Original ==
    (pc = "done" /\ PlainInput(text)) => result = Paragraph(escapeHtml(text))

\* C4 as amended: the same, for inputs that moreover neither start nor end
\* with a newline and contain no two consecutive newlines
C4_PlainInputIsOneParagraph ==
    (pc = "done" /\ PlainInput(text) /\ NoNewlineEdgeOrPair(text))
        => result = Paragraph(escapeHtml(text))

\* a returned parse of a marker-free input with a single inner newline and a
\* character that needs escaping
C4_Witness ==
    /\ pc = "done"
    /\ PlainInput(text)
    /\ NoNewlineEdgeOrPair(text)
    /\ HasChar(text, NL)
    /\ HasChar(text, "<")
    /\ Len(tokens) = 1

(***************************************************************************)
(* C5.  A blank line separates paragraphs: marker-free runs A and B with   *)
(* two or more newlines between them lex as two Text tokens and render as  *)
(* <p>A</p> followed by <p>B</p>.                                          *)
(***************************************************************************)
\* a marker-free, non-blank run that stays on one line
PlainRun(s) == PlainInput(s) /\ ~HasChar(s, NL)

C5_BlankLineSeparatesParagraphs ==
    LET a == find(text, NL)
        b == SkipNewlines(text, a)
        A == Slice(text, 0, a)
        B == Slice(text, b, Len(text))
    IN  (pc = "done" /\ a # npos /\ b - a >= 2 /\ PlainRun(A) /\ PlainRun(B))
            => /\ tokens = <<Token("TEXT", A), Token("TEXT", B)>>
               /\ result = Paragraph(escapeHtml(A)) \o Paragraph(escapeHtml(B))

(***************************************************************************)
(* C6.  tokensToHtml wraps each maximal run of consecutive Text, Bold,     *)
(* Italic, Link and Image tokens in exactly one "<p>" ... "</p>\n" pair,   *)
(* and emits every heading and list item outside any paragraph.            *)
(***************************************************************************)
BlockClass(type) ==
    IF type = "LIST" THEN "ul"
    ELSE IF type \in {"H1", "H2", "H3", "H4", "H5", "H6"} THEN "h"
    ELSE "p"

\* the last index of the maximal run of tokens of one class that starts at k
RECURSIVE RunEnd(_, _)
RunEnd(toks, k) ==
    IF k < Len(toks) /\ BlockClass(toks[k + 1].type) = BlockClass(toks[k].type)
    THEN RunEnd(toks, k + 1)
    ELSE k

RECURSIVE ConcatHtml(_, _, _)
ConcatHtml(toks, k, j) ==
    IF k > j THEN <<>> ELSE tokenToHtml(toks[k]) \o ConcatHtml(toks, k + 1, j)

RECURSIVE RenderRuns(_, _)
RenderRuns(toks, k) ==
    IF k > Len(toks) THEN <<>>
    ELSE LET j == RunEnd(toks, k)
             body == ConcatHtml(toks, k, j)
             c == BlockClass(toks[k].type)
         IN  (CASE c = "p" -> OpenP \o body \o CloseP
                [] c = "ul" -> OpenUl \o body \o CloseUl
                [] OTHER -> body)
             \o RenderRuns(toks, j + 1)

C6_OneParagraphPerInlineRun == pc = "done" => result = RenderRuns(tokens, 1)

\* a heading, then text with bold, then a list item: <h1>, one <p>, one <ul>
C6_Witness ==
    /\ pc = "done"
    /\ Len(tokens) = 5
    /\ tokens[1].type = "H1"
    /\ tokens[2].type = "TEXT"
    /\ tokens[3].type = "BOLD"
    /\ tokens[5].type = "LIST"
    /\ Len(SelectSeq(output, LAMBDA c : c = OpenP)) = 1
    /\ Len(SelectSeq(output, LAMBDA c : c = CloseP)) = 1

(***************************************************************************)
(* C7.  Each maximal run of ListItem tokens is rendered as one "<ul>\n",   *)
(* one "<li>" + escaped payload + "</li>\n" per item in order, and one     *)
(* "</ul>\n"; the list is closed before any later non-list token is        *)
(* rendered, and at the end.                                               *)
(***************************************************************************)
ListItemHtml(value) ==
    <<"<", "l", "i", ">">> \o escapeHtml(value) \o <<"<", "/", "l", "i", ">", "\n">>

IsListChunk(c) ==
    \/ c = OpenUl
    \/ c = CloseUl
    \/ (Len(c) >= 4 /\ SubSeq(c, 1, 4) = <<"<", "l", "i", ">">>)

\* the list markup the token sequence calls for, chunk by chunk
RECURSIVE ExpectedListChunks(_, _)
ExpectedListChunks(toks, k) ==
    IF k > Len(toks) THEN <<>>
    ELSE (IF toks[k].type # "LIST" THEN <<>>
          ELSE (IF k = 1 \/ toks[k - 1].type # "LIST" THEN <<OpenUl>> ELSE <<>>)
               \o <<ListItemHtml(toks[k].value)>>
               \o (IF k = Len(toks) \/ toks[k + 1].type # "LIST"
                   THEN <<CloseUl>> ELSE <<>>))
         \o ExpectedListChunks(toks, k + 1)

\* walking the chunks: <ul> only outside a list, <li> and </ul> only inside,
\* anything else only outside; open tells whether a list is open at the end
RECURSIVE ListNesting(_, _)
ListNesting(out, open) ==
    IF out = <<>> THEN [ok |-> TRUE, open |-> open]
    ELSE LET c == Head(out)
         IN  IF c = OpenUl
             THEN IF open THEN [ok |-> FALSE, open |-> open]
                  ELSE ListNesting(Tail(out), TRUE)
             ELSE IF c = CloseUl
             THEN IF open THEN ListNesting(Tail(out), FALSE)
                  ELSE [ok |-> FALSE, open |-> open]
             ELSE IF IsListChunk(c) = open
             THEN ListNesting(Tail(out), open)
             ELSE [ok |-> FALSE, open |-> open]

C7_OneListPerItemRun ==
    /\ pc \in {"render", "done"} =>
          /\ ListNesting(output, FALSE).ok
          /\ ListNesting(output, FALSE).open = (pc = "render" /\ inList)
    /\ pc = "done" =>
          SelectSeq(output, IsListChunk) = ExpectedListChunks(tokens, 1)

\* the two items of "- Item 1\n- Item 2" rendered as one list
C7_Witness ==
    /\ pc = "done"
    /\ tokens = <<Token("LIST", <<"I", "t", "e", "m", " ", "1">>),
                  Token("LIST", <<"I", "t", "e", "m", " ", "2">>)>>
    /\ result = OpenUl
                \o <<"<", "l", "i", ">", "I", "t", "e", "m", " ", "1",
                     "<", "/", "l", "i", ">", "\n">>
                \o <<"<", "l", "i", ">", "I", "t", "e", "m", " ", "2",
                     "<", "/", "l", "i", ">", "\n">>
                \o CloseUl

(***************************************************************************)
(* C8.  A well-formed link [text](url) lexes to Link with payload text|url *)
(* and renders as <a href="E(url)">E(text)</a>, for every text and url,    *)
(* also ones that contain '|'.                                             *)
(***************************************************************************)
Anchor(etext, eurl) ==
    <<"<", "a", " ", "h", "r", "e", "f", "=", "\"">> \o eurl \o <<"\"", ">">>
        \o etext \o <<"<", "/", "a", ">">>

C8_LinkFieldsRoundTrip ==
    LET c == Consumed
        a == find(c, "]")
        T == Slice(c, 1, a)
        U == Slice(c, a + 2, Len(c) - 1)
    IN  (handler = "link" /\ token.type = "LINK"
         /\ ~HasChar(T, "[") /\ ~HasChar(T, "\\"))
            => /\ token.value = T \o <<"|">> \o U
               /\ tokenToHtml(token) = Anchor(escapeHtml(T), escapeHtml(U))

(***************************************************************************)
(* C9.  Unclosed bold degrades to literal text: for "**" followed by X     *)
(* with no '*' up to the end of the line or of the input, the lexer emits  *)
(* one Text token "**X", and an input that is just that renders as         *)
(* <p>, the escaped "**X", </p>, with no <strong>.                         *)
(***************************************************************************)
\* the position of the first newline at or after p, or the end of t
RECURSIVE LineEnd(_, _)
LineEnd(t, p) == IF p >= Len(t) \/ t[p + 1] = NL THEN p ELSE LineEnd(t, p + 1)

\* t is "**" X, or "**" X and a newline, with no '*' and no newline in X
IsUnclosedBold(t) ==
    /\ Len(t) >= 2
    /\ t[1] = "*" /\ t[2] = "*"
    /\ LineEnd(t, 2) >= Len(t) - 1
    /\ ~HasChar(Slice(t, 2, LineEnd(t, 2)), "*")

C9_UnclosedBoldIsText ==
    /\ (handler = "emphasis" /\ peek(text, handlerPos) = "*"
        /\ ~HasChar(Slice(text, handlerPos + 2, LineEnd(text, handlerPos + 2)), "*"))
          => /\ token = Token("TEXT", Slice(text, handlerPos, LineEnd(text, handlerPos + 2)))
             /\ pos = LineEnd(text, handlerPos + 2)
    /\ (pc = "done" /\ IsUnclosedBold(text))
          => /\ tokens = <<Token("TEXT", Slice(text, 0, LineEnd(text, 2)))>>
             /\ result = Paragraph(escapeHtml(Slice(text, 0, LineEnd(text, 2))))

\* "**bold" rendered as the literal text
C9_Witness ==
    /\ pc = "done"
    /\ text = <<"*", "*", "b", "o", "l", "d">>
    /\ result = Paragraph(<<"*", "*", "b", "o", "l", "d">>)

(***************************************************************************)
(* C10.  A run of '#' that no whitespace follows is not a heading: the     *)
(* lexer emits one Text token holding the whole run and the rest of the    *)
(* line, for runs of any length, and an input that is just that line       *)
(* renders as a plain paragraph.                                           *)
(***************************************************************************)
\* the position of the first character at or after p that is not '#'
RECURSIVE HashRunEnd(_, _)
HashRunEnd(t, p) == IF p < Len(t) /\ t[p + 1] = "#" THEN HashRunEnd(t, p + 1) ELSE p

\* no whitespace character stands at position p of t (the end of t included)
NoSpaceAt(t, p) == p >= Len(t) \/ ~isspace(t[p + 1])

C10_HashRunWithoutSpaceIsText ==
    /\ (handler = "heading" /\ NoSpaceAt(text, HashRunEnd(text, handlerPos)))
          => /\ token = Token("TEXT", Slice(text, handlerPos, LineEnd(text, handlerPos)))
             /\ pos = SkipOneNewline(text, LineEnd(text, handlerPos))
    /\ (pc = "done" /\ text # <<>> /\ text[1] = "#"
        /\ NoSpaceAt(text, HashRunEnd(text, 0)) /\ LineEnd(text, 0) >= Len(text) - 1)
          => /\ tokens = <<Token("TEXT", Slice(text, 0, LineEnd(text, 0)))>>
             /\ result = Paragraph(escapeHtml(Slice(text, 0, LineEnd(text, 0))))

\* seven '#' and a letter rendered as a paragraph
C10_Witness ==
    /\ pc = "done"
    /\ text = <<"#", "#", "#", "#", "#", "#", "#", "a">>
    /\ result = Paragraph(text)

(***************************************************************************)
(* C11.  A link whose URL is never closed degrades to literal text: for    *)
(* '[' T "](" U with no ')' in U up to the end of the line or of the       *)
(* input, the lexer emits one Text token holding exactly those input       *)
(* characters, with no ')' added and the cursor left at the end of U; the  *)
(* token renders as its escaped characters, and an input that is just      *)
(* that renders as one paragraph with no <a> tag.                          *)
(***************************************************************************)
\* the position of the first character of t at or after p that is in S, or
\* the end of t
RECURSIVE Upto(_, _, _)
Upto(t, p, S) == IF p >= Len(t) \/ t[p + 1] \in S THEN p ELSE Upto(t, p + 1, S)

\* where the link text that starts after the '[' at p ends, for a text
\* without brackets and backslashes
TextEnd(t, p) == Upto(t, p + 1, {"[", "]", "\\"})

\* where the URL of the link at p ends: at a ')', a newline or the end of t
UrlEnd(t, p) == Upto(t, TextEnd(t, p) + 2, {")", NL})

\* at p stands '[' T "](" U, and no ')' ends U
UnclosedUrlAt(t, p) ==
    /\ CharAt(t, p) = "["
    /\ CharAt(t, TextEnd(t, p)) = "]"
    /\ CharAt(t, TextEnd(t, p) + 1) = "("
    /\ CharAt(t, UrlEnd(t, p)) # ")"

C11_UnclosedUrlIsText ==
    /\ (handler = "link" /\ UnclosedUrlAt(text, handlerPos))
          => /\ token = Token("TEXT", Slice(text, handlerPos, UrlEnd(text, handlerPos)))
             /\ pos = UrlEnd(text, handlerPos)
             /\ tokenToHtml(token) = escapeHtml(Slice(text, handlerPos, UrlEnd(text, handlerPos)))
    /\ (pc = "done" /\ UnclosedUrlAt(text, 0) /\ UrlEnd(text, 0) = Len(text))
          => /\ tokens = <<Token("TEXT", text)>>
             /\ result = Paragraph(escapeHtml(text))

\* "[a](http://x" rendered as the literal text
C11_Witness ==
    /\ pc = "done"
    /\ text = <<"[", "a", "]", "(", "h", "t", "t", "p", ":", "/", "/", "x">>
    /\ result = Paragraph(text)

(***************************************************************************)
(* C12.  Bold inside italic.  The statement as first made: for the input   *)
(* "*outer **inner** outer*" the lexer emits Italic "outer " and then      *)
(* Text for the remainder of the input.                                    *)
(***************************************************************************)
NestedInput ==
    <<"*", "o", "u", "t", "e", "r", " ", "*", "*", "i", "n", "n", "e", "r", "*", "*", " ",
      "o", "u", "t", "e", "r", "*">>

C12_Original ==
    (pc = "done" /\ text = NestedInput)
        => /\ Len(tokens) >= 2
           /\ tokens[1] = Token("ITALIC", <<"o", "u", "t", "e", "r", " ">>)
           /\ \A k \in 2..Len(tokens) : tokens[k].type = "TEXT"

(***************************************************************************)
(* C12, amended.  A '*' that is not followed by '*' and has a '*' later    *)
(* on its line yields Italic with the characters up to that first '*',     *)
(* the cursor just after it; the remainder is then lexed by the same       *)
(* dispatch.  For "*outer **inner** outer*" this gives Italic "outer ",    *)
(* Italic "inner", Italic " outer" and no Text token.                      *)
(***************************************************************************)
C12_NestedEmphasisIsThreeItalics ==
    /\ (handler = "emphasis" /\ peek(text, handlerPos) # "*"
        /\ CharAt(text, Upto(text, handlerPos + 1, {"*", NL})) = "*")
          => /\ token = Token("ITALIC",
                              Slice(text, handlerPos + 1, Upto(text, handlerPos + 1, {"*", NL})))
             /\ pos = Upto(text, handlerPos + 1, {"*", NL}) + 1
    /\ (pc = "done" /\ text = NestedInput)
          => tokens = << Token("ITALIC", <<"o", "u", "t", "e", "r", " ">>),
                         Token("ITALIC", <<"i", "n", "n", "e", "r">>),
                         Token("ITALIC", <<" ", "o", "u", "t", "e", "r">>) >>

\* the nested input lexed to its end, the last token the italic " outer"
C12_Witness ==
    /\ pc = "done"
    /\ text = NestedInput
    /\ Len(tokens) = 3
    /\ tokens[3] = Token("ITALIC", <<" ", "o", "u", "t", "e", "r">>)

(***************************************************************************)
(* escapeHtml on its own: applied to a string, then to its own output.     *)
(***************************************************************************)
MaxEscLen == 4

\* the four characters escapeHtml replaces, and two it copies
EscAlphabet == {"<", ">", "&", "\"", "a", ";"}

InitEscape ==
    /\ pc = "escape"
    /\ text \in Strings(EscAlphabet, MaxEscLen)
    /\ pos = 0
    /\ current_char = NUL
    /\ token = NoToken
    /\ tokens = <<>>
    /\ i = 0
    /\ inList = FALSE
    /\ inParagraph = FALSE
    /\ output = <<>>
    /\ result = <<>>
    /\ oob = FALSE
    /\ handler = "none"
    /\ handlerPos = 0

\* escapeHtml(text): result holds what it returned
EscapeOnce ==
    /\ pc = "escape"
    /\ result' = escapeHtml(text)
    /\ pc' = "escaped"
    /\ UNCHANGED <<text, pos, current_char, token, tokens, i, inList, inParagraph,
                   output, oob, handler, handlerPos>>

\* escapeHtml applied to that result: output holds what it returned
EscapeAgain ==
    /\ pc = "escaped"
    /\ output' = <<escapeHtml(result)>>
    /\ pc' = "escaped twice"
    /\ UNCHANGED <<text, pos, current_char, token, tokens, i, inList, inParagraph,
                   result, oob, handler, handlerPos>>

NextEscape ==
    \/ EscapeOnce
    \/ EscapeAgain

SpecEscape == InitEscape /\ [][NextEscape]_vars

(***************************************************************************)
(* C13.  Escaping is idempotent, as first stated: for every string s,      *)
(* escapeHtml(escapeHtml(s)) = escapeHtml(s).                              *)
(***************************************************************************)
C13_Original ==
    pc = "escaped twice" => output[1] = result

(***************************************************************************)
(* C13, amended.  escapeHtml(escapeHtml(s)) = escapeHtml(s) exactly for    *)
(* the strings s holding none of < > & and the double quote; for any       *)
(* other s the second application escapes the '&' of every entity the      *)
(* first one wrote, and the result is longer by four characters for each.  *)
(***************************************************************************)
Special(c) == c \in {"<", ">", "&", "\""}

\* the number of characters of s that escapeHtml replaces
RECURSIVE Specials(_)
Specials(s) == IF s = <<>> THEN 0 ELSE (IF Special(Head(s)) THEN 1 ELSE 0) + Specials(Tail(s))

C13_EscapeTwiceDoublesEntities ==
    /\ pc \in {"escaped", "escaped twice"}
          => /\ Specials(result) = Specials(text)
             /\ \A k \in DOMAIN result : result[k] \notin {"<", ">", "\""}
             /\ (Specials(text) = 0 => result = text)
    /\ pc = "escaped twice"
          => /\ (output[1] = result) <=> (Specials(text) = 0)
             /\ Len(output[1]) = Len(result) + 4 * Specials(text)

\* "&" escaped to "&amp;" and then to "&amp;amp;"
C13_Witness ==
    /\ pc = "escaped twice"
    /\ text = <<"&">>
    /\ result = <<"&", "a", "m", "p", ";">>
    /\ output[1] = <<"&", "a", "m", "p", ";", "a", "m", "p", ";">>

(***************************************************************************)
(* One Parser object used for call after call of parse.                    *)
(***************************************************************************)
MaxReuseLen == 2

ReuseAlphabet == {"#", "*", "-", " ", "\n", "a"}

\* the inputs given to a Parser that is used again
ReuseInputs ==
    Strings(ReuseAlphabet, MaxReuseLen)
        \cup { <<"#", " ", "T">>, <<"*", "*", "b", "*", "*">>,
               <<"-", " ", "i", "\n", "-", " ", "j">>,
               <<"[", "a", "]", "(", "b", ")">>, <<"!", "[", "a", "]", "(", "b", ")">> }

\* parse(markdown) on a Parser whose earlier call has returned, up to the
\* first call of get_next_token: a new Lexer replaces the old one and tokens
\* is cleared; what the earlier call returned stays with its caller
ParseAgain(markdown) ==
    /\ pc = "done"
    /\ pc' = "lex"
    /\ text' = markdown
    /\ pos' = 0
    /\ current_char' = CharAt(markdown, 0)
    /\ tokens' = clear(tokens)
    /\ token' = NoToken
    /\ handler' = "none"
    /\ handlerPos' = 0
    /\ UNCHANGED <<i, inList, inParagraph, output, result, oob>>

ParseReuseInput == pc = "idle" /\ \E markdown \in ReuseInputs : Parse(markdown)

ParseAgainInput == pc = "done" /\ \E markdown \in ReuseInputs : ParseAgain(markdown)

NextReuse ==
    \/ ParseReuseInput
    \/ ParseAgainInput
    \/ Run

SpecReuse == Init /\ [][NextReuse]_vars

\* the tokens parse collects from markdown, from cursor p on
RECURSIVE FreshTokens(_, _)
FreshTokens(markdown, p) ==
    LET r == get_next_token(markdown, p)
    IN  IF r.tok.is_eof THEN <<>> ELSE <<r.tok>> \o FreshTokens(markdown, r.pos)

\* what tokensToHtml writes from token k on
RECURSIVE FreshHtml(_, _, _, _)
FreshHtml(toks, k, inL, inP) ==
    IF k >= Len(toks)
    THEN (IF inL THEN CloseUl ELSE <<>>) \o (IF inP THEN CloseP ELSE <<>>)
    ELSE LET tok == toks[k + 1]
             lw == ListWrap(tok.type, inL, inP)
             pw == ParagraphWrap(tok.type, lw.inParagraph)
             closes == ClosesAfter(toks, k, pw.inParagraph)
         IN  Flatten(lw.out \o pw.out) \o tokenToHtml(tok)
                 \o (IF closes THEN CloseP ELSE <<>>)
                 \o FreshHtml(toks, k + 1, lw.inList, pw.inParagraph /\ ~closes)

\* what parse(markdown) returns on a Parser just constructed
FreshParse(markdown) == FreshHtml(FreshTokens(markdown, 0), 0, FALSE, FALSE)

(***************************************************************************)
(* C14.  No state leaks across invocations: whatever calls of parse a      *)
(* Parser has served before, the tokens it holds when the lexing of an     *)
(* input b has ended, and the string it returns for b, are those of        *)
(* parse(b) on a Parser just constructed.                                  *)
(***************************************************************************)
C14_NoStateAcrossCalls ==
    /\ pc \in {"render", "done"} => tokens = FreshTokens(text, 0)
    /\ pc = "done" => result = FreshParse(text)

\* a second call, on "- ", about to return while the caller of the first
\* call, on "a", still holds <p>a</p>
C14_Witness ==
    /\ pc = "render"
    /\ i = Len(tokens)
    /\ text = <<"-", " ">>
    /\ result = Paragraph(<<"a">>)
    /\ Flatten(output) \o CloseUl = FreshParse(text)

(***************************************************************************)
(* C15.  parse of the empty string returns the empty string: the first     *)
(* call of get_next_token returns EOF, no token is pushed, tokensToHtml    *)
(* writes nothing, no wrapper tag included.                                *)
(***************************************************************************)
C15_EmptyInputEmptyOutput ==
    (pc # "idle" /\ text = <<>>)
        => /\ tokens = <<>>
           /\ output = <<>>
           /\ result = <<>>
           /\ pc \in {"render", "done"} => (token.is_eof /\ pos = 0)

\* parse("") has returned
C15_Witness ==
    /\ pc = "done"
    /\ text = <<>>
    /\ token = createEOF
    /\ result = <<>>

(***************************************************************************)
(* C16.  The image handler is the link handler re-wrapped: called on '!'   *)
(* followed by '[', it returns what the link handler returns on the input  *)
(* that starts at that '[' -- a Link as an Image with the same payload, a  *)
(* Text as a Text with '!' put before its payload -- and leaves the        *)
(* cursor where the link handler leaves it; called on '!' followed by      *)
(* anything else it returns Text "!" and consumes only the '!'.            *)
(***************************************************************************)
C16_ImageIsLinkRewrapped ==
    handler = "image" =>
        IF CharAt(text, handlerPos + 1) = "["
        THEN LET l == handle_link(Slice(text, handlerPos + 1, Len(text)), 0)
             IN  /\ l.tok.type \in {"LINK", "TEXT"}
                 /\ l.tok.type = "LINK" => token = Token("IMAGE", l.tok.value)
                 /\ l.tok.type = "TEXT" => token = Token("TEXT", <<"!">> \o l.tok.value)
                 /\ pos = handlerPos + 1 + l.pos
        ELSE /\ token = Token("TEXT", <<"!">>)
             /\ pos = handlerPos + 1

\* the image of the Image Test shape, lexed to an Image token
C16_Witness ==
    /\ handler = "image"
    /\ text = <<"!", "[", "A", "l", "t", "]", "(", "i", ".", "p", "n", "g", ")">>
    /\ token = Token("IMAGE", <<"A", "l", "t", "|", "i", ".", "p", "n", "g">>)
    /\ pos = Len(text)

(***************************************************************************)
(* The Lexer on its own: a caller that constructs it on an input and       *)
(* calls get_next_token again and again, also after EOF was returned.      *)
(***************************************************************************)
LexInput == pc = "idle" /\ \E markdown \in Inputs : Parse(markdown)

\* get_next_token called once more after it returned EOF; nothing is pushed
GetAfterEOF ==
    /\ pc = "render"
    /\ token.is_eof
    /\ LET r == get_next_token(text, pos)
       IN  /\ token' = r.tok
           /\ pos' = r.pos
           /\ current_char' = CharAt(text, r.pos)
    /\ handler' = Branch
    /\ handlerPos' = IF current_char = NUL THEN pos ELSE SkipNewlines(text, pos)
    /\ UNCHANGED <<pc, text, tokens, i, inList, inParagraph, output, result, oob>>

NextLexer ==
    \/ LexInput
    \/ GetEOF
    \/ GetHeading
    \/ GetEmphasis
    \/ GetLink
    \/ GetImage
    \/ GetList
    \/ GetText
    \/ GetAfterEOF

SpecLexer == Init /\ [][NextLexer]_vars

(***************************************************************************)
(* C17.  get_next_token returns EOF exactly when no character other than   *)
(* a newline stands at or after the cursor it is called with, so every     *)
(* token returned while such a character remains is not EOF; and once EOF  *)
(* was returned, every later call returns EOF again and leaves the cursor  *)
(* where it is, at the end of the input.                                   *)
(***************************************************************************)
\* only newlines stand at or after position p of t
OnlyNewlinesFrom(t, p) == \A k \in (p + 1)..Len(t) : t[k] = NL

\* one call of get_next_token, before or after its first EOF
C17_Call ==
    /\ pc = "lex" => /\ token'.is_eof <=> OnlyNewlinesFrom(text, pos)
                     /\ pos' >= pos
    /\ (pc = "render" /\ token.is_eof) => (token'.is_eof /\ pos' = pos)

C18_ListPayloadIsRestOfMarkerLine ==
    (handler = "list" /\ isspace(CharAt(text, handlerPos + 1)))
        => token = Token("LIST", Slice(text, handlerPos + 2, LineEnd(text, handlerPos)))

(***************************************************************************)
(* C19.  A run of n '#', 1 <= n <= 6, followed by a whitespace character   *)
(* yields the heading token of level n; its payload is the rest of that    *)
(* line after the run of whitespace other than newline, without the line   *)
(* terminator, which is consumed, and without any character of a later     *)
(* line.  The level handle_heading computes is always within 1..6, so a    *)
(* Text token comes from the no-whitespace branch only, never from the     *)
(* default of the switch.                                                  *)
(***************************************************************************)
\* the position of the first character of t at or after p that is not in S,
\* or the end of t
RECURSIVE SpanEnd(_, _, _)
SpanEnd(t, p, S) == IF p < Len(t) /\ t[p + 1] \in S THEN SpanEnd(t, p + 1, S) ELSE p

InlineSpace == {" ", "\t", "\r", "\f"}

HeadingOfLevel == <<"H1", "H2", "H3", "H4", "H5", "H6">>

C19_HeadingLevelAndBody ==
    handler = "heading" =>
        LET r == HashRunEnd(text, handlerPos)
            n == r - handlerPos
            level == CountHashes(text, handlerPos + 1, 1).level
        IN  /\ (n \in 1..6 /\ isspace(CharAt(text, r)))
                  => /\ token = Token(HeadingOfLevel[n],
                                      Slice(text, SpanEnd(text, r, InlineSpace),
                                            LineEnd(text, handlerPos)))
                     /\ pos = SkipOneNewline(text, LineEnd(text, handlerPos))
            /\ level \in 1..6
            /\ level = (IF n < 6 THEN n ELSE 6)
            /\ HeadingType(level) = HeadingOfLevel[level]
            /\ token.type = "TEXT" => NoSpaceAt(text, handlerPos + level)

\* "### \ta b" before a second line: level 3, the body without the tab
C19_Witness ==
    /\ handler = "heading"
    /\ text = <<"#", "#", "#", " ", "\t", "a", " ", "b", "\n", "c">>
    /\ token = Token("H3", <<"a", " ", "b">>)
    /\ pos = 9

(***************************************************************************)
(* C20.  The nesting counter of handle_link starts at 1 after the opening  *)
(* '[', goes up on each '[' that is not escaped, down on each ']', and     *)
(* capture ends at the first ']' that brings it to 0, so it is never       *)
(* negative; an escaped '[' (a backslash before it) puts a '[' into the    *)
(* text, changes no count and ends nothing.  If the counter never reaches  *)
(* 0 the call consumes all the input that remains, line breaks included,   *)
(* and returns Text of '[' and everything captured; if it reaches 0 and    *)
(* the next character is not '(' it returns Text of '[', the captured      *)
(* text and ']', the cursor just after that ']'.                           *)
(***************************************************************************)
\* the counter when the characters of t from position p up to q (q not
\* included) have been read, starting from depth
RECURSIVE Depth(_, _, _, _)
Depth(t, p, q, depth) ==
    IF p >= q THEN depth
    ELSE IF t[p + 1] = "\\" /\ p + 1 < Len(t) /\ t[p + 2] = "["
    THEN Depth(t, p + 2, q, depth)
    ELSE IF t[p + 1] = "[" THEN Depth(t, p + 1, q, depth + 1)
    ELSE IF t[p + 1] = "]" THEN Depth(t, p + 1, q, depth - 1)
    ELSE Depth(t, p + 1, q, depth)

\* s with every escaped '[' replaced by '['
RECURSIVE Unescaped(_)
Unescaped(s) ==
    IF s = <<>> THEN <<>>
    ELSE IF Len(s) >= 2 /\ s[1] = "\\" /\ s[2] = "["
    THEN <<"[">> \o Unescaped(SubSeq(s, 3, Len(s)))
    ELSE <<s[1]>> \o Unescaped(Tail(s))

\* the positions after the '[' at p at which the counter is 0
Closings(t, p) == {q \in (p + 2)..Len(t) : Depth(t, p + 1, q, 1) = 0}

\* the least element of a non-empty set of numbers
Least(S) == CHOOSE q \in S : \A r \in S : q <= r

C20_BracketCounter ==
    handler = "link" =>
        LET p == handlerPos
            b == BracketScan(text, p + 1, <<>>, 1)
        IN  /\ \A q \in (p + 1)..b.pos : Depth(text, p + 1, q, 1) >= 0
            /\ b.bracket_count = Depth(text, p + 1, b.pos, 1)
            /\ b.text = Unescaped(Slice(text, p + 1,
                                        IF b.bracket_count = 0 THEN b.pos - 1 ELSE b.pos))
            /\ Closings(text, p) = {}
                  => /\ token = Token("TEXT", <<"[">> \o Unescaped(Slice(text, p + 1, Len(text))))
                     /\ pos = Len(text)
            /\ Closings(text, p) # {}
                  => LET q == Least(Closings(text, p))
                     IN  /\ b.pos = q
                         /\ text[q] = "]"
                         /\ CharAt(text, q) # "("
                               => /\ token = Token("TEXT", <<"[">>
                                                 \o Unescaped(Slice(text, p + 1, q - 1))
                                                 \o <<"]">>)
                                  /\ pos = q

\* a nested pair closed, the outer bracket never: all three lines consumed
C20_Witness ==
    /\ handler = "link"
    /\ text = <<"[", "a", "[", "b", "]", "\n", "c">>
    /\ token = Token("TEXT", text)
    /\ pos = Len(text)

(***************************************************************************)
(* C21.  Every token of the plain-text path of get_next_token is a Text    *)
(* token with a non-empty payload that holds none of the markers           *)
(* # * [ ! -, no two newlines in a row, and no newline at its start or     *)
(* its end.  The run ends at the first marker, pair of newlines or end of  *)
(* input; when it ends at a pair of newlines the cursor stands on the      *)
(* first of them, so the call has consumed neither.                        *)
(***************************************************************************)
\* two newlines stand at positions p and p + 1 of t
NewlinePairAt(t, p) == CharAt(t, p) = NL /\ CharAt(t, p + 1) = NL

HasNewlinePair(s) == \E k \in 1..(Len(s) - 1) : s[k] = NL /\ s[k + 1] = NL

\* the positions from p on at which a plain-text run must end
RunStops(t, p) ==
    {q \in p..Len(t) : q = Len(t) \/ is_markdown_char(t[q + 1]) \/ NewlinePairAt(t, q)}

C21_TextRunPayload ==
    handler = "text" =>
        /\ token.type = "TEXT"
        /\ token.value # <<>>
        /\ MarkerFree(token.value)
        /\ ~HasNewlinePair(token.value)
        /\ token.value[1] # NL
        /\ token.value[Len(token.value)] # NL
        /\ pos = Least(RunStops(text, handlerPos))
        /\ ~HasNewlinePair(Consumed)
        /\ ~NewlinePairAt(text, pos - 1)
        /\ \E k \in 0..1 : /\ Consumed = token.value \o Rep(k, NL)
                           /\ k = 1 => (pos = Len(text) \/ is_markdown_char(CharAt(text, pos)))

\* "a b", a blank line, "c d": the first run has stopped on the first newline
C21_Witness ==
    /\ handler = "text"
    /\ text = <<"a", " ", "b", "\n", "\n", "c", " ", "d">>
    /\ token = Token("TEXT", <<"a", " ", "b">>)
    /\ pos = 3
    /\ NewlinePairAt(text, pos)

(***************************************************************************)
(* C22.  No payload character reaches the output as a raw '<', '>', '&'    *)
(* or double quote: each one, in every kind of payload and in both fields  *)
(* of a Link or Image, is replaced once by its entity.  So the '<', '>'    *)
(* and quotes of the returned HTML are exactly those of the tags the       *)
(* renderer writes, its '&' are as many as the payloads have special       *)
(* characters and each starts an entity, and every token's HTML is as      *)
(* long as its tags and its payload escaped once.                          *)
(***************************************************************************)
\* how often c occurs in s
RECURSIVE Count(_, _)
Count(s, c) == IF s = <<>> THEN 0 ELSE (IF Head(s) = c THEN 1 ELSE 0) + Count(Tail(s), c)

\* the number of tags the renderer writes for a token of this type
TagsOf(type) == CASE type = "TEXT" -> 0 [] type = "IMAGE" -> 1 [] OTHER -> 2

\* the number of double quotes in those tags
QuotesOf(type) == CASE type = "LINK" -> 2 [] type = "IMAGE" -> 4 [] OTHER -> 0

\* the number of characters the renderer writes around the payload of a token
\* of this type, a trailing newline included
TagLen(type) ==
    CASE type = "TEXT" -> 0
      [] type \in {"H1", "H2", "H3", "H4", "H5", "H6"} -> 10
      [] type = "BOLD" -> 17
      [] type = "ITALIC" -> 9
      [] type = "LIST" -> 10
      [] type = "LINK" -> 15
      [] type = "IMAGE" -> 19

\* the length of s with each special character written as its entity
EscapedLen(s) ==
    Len(s) + 3 * Count(s, "<") + 3 * Count(s, ">") + 4 * Count(s, "&") + 5 * Count(s, "\"")

\* tags, quotes and special payload characters of a token sequence
RECURSIVE Markup(_)
Markup(toks) ==
    IF toks = <<>> THEN [tags |-> 0, quotes |-> 0, specials |-> 0]
    ELSE LET m == Markup(Tail(toks))
         IN  [tags |-> TagsOf(Head(toks).type) + m.tags,
              quotes |-> QuotesOf(Head(toks).type) + m.quotes,
              specials |-> Specials(Head(toks).value) + m.specials]

\* one of the four entities starts at index k of s
EntityAt(s, k) ==
    \E e \in {<<"&", "l", "t", ";">>, <<"&", "g", "t", ";">>,
              <<"&", "a", "m", "p", ";">>, <<"&", "q", "u", "o", "t", ";">>} :
        /\ k + Len(e) - 1 <= Len(s)
        /\ SubSeq(s, k, k + Len(e) - 1) = e

C22_PayloadsEscapedOnce ==
    pc = "done" =>
        LET m == Markup(tokens)
            wrappers == Len(output) - Len(tokens)
        IN  /\ Count(result, "<") = wrappers + m.tags
            /\ Count(result, ">") = wrappers + m.tags
            /\ Count(result, "\"") = m.quotes
            /\ Count(result, "&") = m.specials
            /\ \A k \in DOMAIN result : result[k] = "&" => EntityAt(result, k)
            /\ \A k \in DOMAIN tokens :
                  Len(tokenToHtml(tokens[k]))
                      = TagLen(tokens[k].type) + EscapedLen(tokens[k].value)
                          - (IF tokens[k].type \in {"LINK", "IMAGE"} THEN 1 ELSE 0)

\* a link with '<', '&' in its text and a quote, '>' in its URL
C22_Witness ==
    /\ pc = "done"
    /\ text = <<"[", "<", "&", "]", "(", "\"", ">", ")">>
    /\ tokens = <<Token("LINK", <<"<", "&", "|", "\"", ">">>)>>
    /\ Count(result, "&") = 4
    /\ Count(result, "\"") = 2

(***************************************************************************)
(* C23.  Across the calls of get_next_token the cursor never moves         *)
(* backwards, and every input character that appears in a token's payload  *)
(* was consumed by the call that produced the token: the payload is made,  *)
(* in order, of characters the cursor moved past in that call (the '|'     *)
(* the link handler puts between text and URL aside).  Hence no input      *)
(* character contributes to the payloads of two tokens.                    *)
(***************************************************************************)
\* s can be got from t by leaving characters out
RECURSIVE IsSubseq(_, _)
IsSubseq(s, t) ==
    IF s = <<>> THEN TRUE
    ELSE IF t = <<>> THEN FALSE
    ELSE IF Head(s) = Head(t) THEN IsSubseq(Tail(s), Tail(t))
    ELSE IsSubseq(s, Tail(t))

\* s without its k-th character
Without(s, k) == SubSeq(s, 1, k - 1) \o SubSeq(s, k + 1, Len(s))

\* the payload of the last token is made of characters its call consumed
PayloadFromConsumed ==
    IF token.type \in {"LINK", "IMAGE"}
    THEN \E k \in DOMAIN token.value :
            token.value[k] = "|" /\ IsSubseq(Without(token.value, k), Consumed)
    ELSE IsSubseq(token.value, Consumed)

C23_CursorForwardPayloadConsumed ==
    /\ [][text' = text => pos' >= pos]_vars
    /\ []((pc \in {"lex", "render", "done"} /\ ~token.is_eof /\ token # NoToken)
             => PayloadFromConsumed)

(***************************************************************************)
(* C24.  For every token sequence, at every point of the tokensToHtml      *)
(* walk at most one of inList and inParagraph is true, and when the        *)
(* function returns both are closed: the output has as many "</p>" as      *)
(* "<p>" and as many "</ul>" as "<ul>", every <li> lies between a <ul>     *)
(* and its </ul>, and no <h1>..<h6>, <ul> or <li> lies between a <p> and   *)
(* its </p>.                                                               *)
(***************************************************************************)
\* the names of the tags of s in order, a '/' kept: what stands between
\* each '<' and the next '>' or space
RECURSIVE TagNames(_)
TagNames(s) ==
    IF s = <<>> THEN <<>>
    ELSE IF Head(s) = "<"
    THEN LET e == Upto(s, 1, {">", " "})
         IN  <<Slice(s, 1, e)>> \o TagNames(SubSeq(s, e + 1, Len(s)))
    ELSE TagNames(Tail(s))

HeadingNames == {<<"h", "1">>, <<"h", "2">>, <<"h", "3">>, <<"h", "4">>, <<"h", "5">>, <<"h", "6">>}

\* the tags from the k-th on open and close paragraphs and lists properly,
\* inP and inUl telling what is open before them
RECURSIVE WellNested(_, _, _, _)
WellNested(tags, k, inP, inUl) ==
    IF k > Len(tags) THEN ~inP /\ ~inUl
    ELSE LET n == tags[k]
         IN  CASE n = <<"p">> -> ~inP /\ ~inUl /\ WellNested(tags, k + 1, TRUE, inUl)
               [] n = <<"/", "p">> -> inP /\ WellNested(tags, k + 1, FALSE, inUl)
               [] n = <<"u", "l">> -> ~inP /\ ~inUl /\ WellNested(tags, k + 1, inP, TRUE)
               [] n = <<"/", "u", "l">> -> ~inP /\ inUl /\ WellNested(tags, k + 1, inP, FALSE)
               [] n = <<"l", "i">> -> ~inP /\ inUl /\ WellNested(tags, k + 1, inP, inUl)
               [] n \in HeadingNames -> ~inP /\ WellNested(tags, k + 1, inP, inUl)
               [] OTHER -> WellNested(tags, k + 1, inP, inUl)

C24_ListAndParagraphBalanced ==
    /\ ~(inList /\ inParagraph)
    /\ (pc = "render" /\ i < Len(tokens))
          => LET lw == ListWrap(tokens[i + 1].type, inList, inParagraph)
                 pw == ParagraphWrap(tokens[i + 1].type, lw.inParagraph)
             IN  /\ ~(lw.inList /\ lw.inParagraph)
                 /\ ~(lw.inList /\ pw.inParagraph)
    /\ pc = "done"
          => LET tags == TagNames(result)
             IN  /\ Count(tags, <<"p">>) = Count(tags, <<"/", "p">>)
                 /\ Count(tags, <<"u", "l">>) = Count(tags, <<"/", "u", "l">>)
                 /\ WellNested(tags, 1, FALSE, FALSE)

\* text, two list items, a heading, text: two paragraphs and a list, closed
C24_Witness ==
    /\ pc = "done"
    /\ tokens = <<Token("TEXT", <<"a">>), Token("LIST", <<"a">>), Token("LIST", <<"a">>),
                  Token("H1", <<"a">>)>>
    /\ TagNames(result) = << <<"p">>, <<"/", "p">>, <<"u", "l">>, <<"l", "i">>, <<"/", "l", "i">>,
                             <<"l", "i">>, <<"/", "l", "i">>, <<"/", "u", "l">>,
                             <<"h", "1">>, <<"/", "h", "1">> >>

(***************************************************************************)
(* The first-iteration lexer (src/main.cpp) and the loop of its main.      *)
(* advance, peek, collect_until, handle_emphasis, handle_link,             *)
(* handle_image, handle_list and is_markdown_char are the same code as in  *)
(* src/parser/main.cpp and are modelled by the same definitions; there is  *)
(* no EOF token, is_eof is FALSE in every token of this lexer.             *)
(***************************************************************************)
MaxFirstLen == 4

FirstAlphabet == {"#", "*", "[", "!", "-", " ", "\t", "\n", "a"}

\* the markdown of main
MainMarkdown ==
    <<"#", " ", "V", "a", "l", "i", "d", " ", "h", "e", "a", "d", "i", "n",
      "g", " ", "1", "\n", "#", "I", "n", "v", "a", "l", "i", "d", " ", "h",
      "e", "a", "d", "i", "n", "g", "\n", "#", "#", " ", "V", "a", "l", "i",
      "d", " ", "h", "e", "a", "d", "i", "n", "g", " ", "2", "\n", "T", "h",
      "i", "s", " ", "i", "s", " ", "*", "*", "b", "o", "l", "d", "*", "*",
      " ", "a", "n", "d", " ", "*", "i", "t", "a", "l", "i", "c", "*", " ",
      "t", "e", "x", "t", ".", "\n", "T", "h", "i", "s", " ", "i", "s", " ",
      "*", "*", "u", "n", "c", "l", "o", "s", "e", "d", " ", "b", "o", "l",
      "d", " ", "a", "n", "d", " ", "*", "n", "e", "s", "t", "e", "d", " ",
      "i", "t", "a", "l", "i", "c", "*", "\n", "-", " ", "V", "a", "l", "i",
      "d", " ", "l", "i", "s", "t", " ", "i", "t", "e", "m", "\n", "-", "I",
      "n", "v", "a", "l", "i", "d", " ", "l", "i", "s", "t", " ", "i", "t",
      "e", "m", "\n", "H", "e", "r", "e", "'", "s", " ", "a", " ", "[", "v",
      "a", "l", "i", "d", " ", "l", "i", "n", "k", "]", "(", "h", "t", "t",
      "p", "s", ":", "/", "/", "e", "x", "a", "m", "p", "l", "e", ".", "c",
      "o", "m", ")", "\n", "H", "e", "r", "e", "'", "s", " ", "a", "n", " ",
      "[", "i", "n", "v", "a", "l", "i", "d", " ", "l", "i", "n", "k", "]",
      "(", "h", "t", "t", "p", "s", ":", "/", "/", "e", "x", "a", "m", "p",
      "l", "e", ".", "c", "o", "m", "\n", "A", "n", "d", " ", "a", " ", "!",
      "[", "v", "a", "l", "i", "d", " ", "i", "m", "a", "g", "e", "]", "(",
      "i", "m", "a", "g", "e", ".", "j", "p", "g", ")", "\n", "A", "n", "d",
      " ", "a", "n", " ", "!", "[", "i", "n", "v", "a", "l", "i", "d", " ",
      "i", "m", "a", "g", "e", "(", "i", "m", "a", "g", "e", ".", "j", "p",
      "g", "\n", "A", " ", "*", "N", "e", "s", "t", "e", "d", " ", "b", "o",
      "l", "d", "e", "d", " ", "*", "*", "n", "e", "s", "t", "e", "d", " ",
      "i", "t", "a", "l", "i", "c", "*", "*", " ", "b", "o", "l", "d", "e",
      "d", " ", "a", "g", "a", "i", "n", "*", "\n">>

FirstInputs == Strings(FirstAlphabet, MaxFirstLen) \cup {MainMarkdown}

\* handle_heading of src/main.cpp: whitespace is skipped before the '#' are
\* counted, and the spaces after them are counted
first_handle_heading(t, p) ==
    LET s1 == SkipInlineSpace(t, p + 1)
        h == CountHashes(t, s1, 1)
        level == h.level
        original == <<"#">> \o Slice(t, p + 1, s1) \o Rep(level - 1, "#")
        s2 == SkipInlineSpace(t, h.pos)
        spaces == s2 - h.pos
        q == collect_until(t, s2, NL)
    IN  IF spaces = 0
        THEN Ret(Token("TEXT", original \o Slice(t, s2, q)), SkipOneNewline(t, q))
        ELSE Ret(Token(HeadingType(level),
                       IF level \in 1..6 THEN Slice(t, s2, q)
                       ELSE original \o Slice(t, s2, q)),
                 SkipOneNewline(t, q))

\* the text loop of get_next_token of src/main.cpp (lines 261-268): newlines
\* are consumed and dropped; the cursor and text_content when it ends
RECURSIVE FirstTextLoop(_, _, _)
FirstTextLoop(t, p, text_content) ==
    LET c == CharAt(t, p)
    IN  IF c # NUL /\ ~is_markdown_char(c)
        THEN FirstTextLoop(t, p + 1, IF c = NL THEN text_content ELSE text_content \o <<c>>)
        ELSE [pos |-> p, text |-> text_content]

\* line 271: empty, or nothing but blank, tab, newline, carriage return
Blank(s) == \A k \in DOMAIN s : s[k] \in {" ", "\t", "\n", "\r"}

\* blank text returned as a token instead of skipped
RECURSIVE first_get_next_token_ReturnsBlank(_, _)
first_get_next_token_ReturnsBlank(t, p) ==
    LET c == CharAt(t, p)
        d == Dispatch(c)
        called(r) == [tok |-> r.tok, pos |-> r.pos, depth |-> 0]
    IN  CASE d = "eof" -> [tok |-> Token("TEXT", <<>>), pos |-> p, depth |-> 0]
          [] d = "heading" -> called(first_handle_heading(t, p))
          [] d = "emphasis" -> called(handle_emphasis(t, p))
          [] d = "link" -> called(handle_link(t, p))
          [] d = "image" -> called(handle_image(t, p))
          [] d = "list" -> called(handle_list(t, p))
          [] OTHER ->
                LET l == FirstTextLoop(t, p, <<>>)
                IN  IF Blank(l.text)
                    THEN [tok |-> Token("TEXT", <<>>), pos |-> l.pos, depth |-> 0]
                    ELSE [tok |-> Token("TEXT", l.text), pos |-> l.pos, depth |-> 0]

\* get_next_token of src/main.cpp called with the cursor at p: the token,
\* the cursor, and how deep its calls of itself were nested
RECURSIVE first_get_next_token(_, _)
first_get_next_token(t, p) ==
    LET c == CharAt(t, p)
        d == Dispatch(c)
        called(r) == [tok |-> r.tok, pos |-> r.pos, depth |-> 0]
    IN  CASE d = "eof" -> [tok |-> Token("TEXT", <<>>), pos |-> p, depth |-> 0]
          [] d = "heading" -> called(first_handle_heading(t, p))
          [] d = "emphasis" -> called(handle_emphasis(t, p))
          [] d = "link" -> called(handle_link(t, p))
          [] d = "image" -> called(handle_image(t, p))
          [] d = "list" -> called(handle_list(t, p))
          [] OTHER ->
                LET l == FirstTextLoop(t, p, <<>>)
                IN  IF Blank(l.text)
                    THEN IF CharAt(t, l.pos) # NUL
                         THEN LET r == first_get_next_token(t, l.pos)
                              IN  [tok |-> r.tok, pos |-> r.pos, depth |-> r.depth + 1]
                         ELSE [tok |-> Token("TEXT", <<>>), pos |-> l.pos, depth |-> 0]
                    ELSE [tok |-> Token("TEXT", l.text), pos |-> l.pos, depth |-> 0]

\* "Lexer lexer(markdown);"
FirstLexer(markdown) ==
    /\ pc = "idle"
    /\ pc' = "lex"
    /\ text' = markdown
    /\ pos' = 0
    /\ current_char' = CharAt(markdown, 0)
    /\ UNCHANGED <<token, tokens, i, inList, inParagraph, output, result, oob,
                   handler, handlerPos>>

FirstInput == pc = "idle" /\ \E markdown \in FirstInputs : FirstLexer(markdown)

\* "token = lexer.get_next_token();" (lines 364 and 368)
FirstGetToken ==
    /\ pc = "lex"
    /\ LET r == first_get_next_token(text, pos)
       IN  /\ token' = r.tok
           /\ pos' = r.pos
           /\ current_char' = CharAt(text, r.pos)
    /\ handler' = Dispatch(current_char)
    /\ handlerPos' = pos
    /\ pc' = "test"
    /\ UNCHANGED <<text, tokens, i, inList, inParagraph, output, result, oob>>

\* the test of the while loop of main
EmptyText(tok) == tok.type = "TEXT" /\ tok.value = <<>>

\* the loop goes on: token.repr(); tokens holds what was printed
FirstRepr ==
    /\ pc = "test"
    /\ ~EmptyText(token)
    /\ tokens' = Append(tokens, token)
    /\ pc' = "lex"
    /\ UNCHANGED <<text, pos, current_char, token, i, inList, inParagraph, output,
                   result, oob, handler, handlerPos>>

\* the loop ends at an empty Text token
FirstStop ==
    /\ pc = "test"
    /\ EmptyText(token)
    /\ pc' = "done"
    /\ UNCHANGED <<text, pos, current_char, token, tokens, i, inList, inParagraph,
                   output, result, oob, handler, handlerPos>>

NextFirst ==
    \/ FirstInput
    \/ FirstGetToken
    \/ FirstRepr
    \/ FirstStop

SpecFirst == Init /\ [][NextFirst]_vars

====
